---- MODULE Spec2Model ----
(***************************************************************************)
(* Interest Calculator backend: a FastAPI application (backend/app/main.py) *)
(* that validates a (principal, rate, time) request, writes it to the       *)
(* Input sheet of one Google spreadsheet through a process-wide             *)
(* GoogleSheetsService (backend/app/services/google_sheets.py), waits, and  *)
(* reads the two interest values back from the Output sheet.                *)
(*                                                                          *)
(* Numbers are integers: the code's floats are only compared with 0 and     *)
(* 100, copied, parsed from cell text and rounded, never computed with.     *)
(* Error messages are sequences of strings, outermost wrapper first: the    *)
(* code builds f"prefix: {str(e)}", modelled as <<prefix>> \o msg(e).       *)
(***************************************************************************)
EXTENDS Integers, Sequences, FiniteSets, TLC

VARIABLES
    GOOGLE_SHEET_ID,   \* config.py:17   "" when the environment variable is unset
    credFile,          \* config.py:18   the credentials file: "missing", "invalid", "valid"
    worksheets,        \* remote: titles of the worksheets of the spreadsheet
    inputCells,        \* remote: Input!B2, B3, B4
    sheets_service,    \* main.py:24     None or the id of the GoogleSheetsService instance
    nConstructed,      \* history: GoogleSheetsService instances constructed so far
    client,            \* google_sheets.py:52  self.client
    spreadsheet,       \* google_sheets.py:53  self.spreadsheet
    phase,             \* lifespan of the process: "init", "serving", "failed", "unit"
    loopOwner,         \* the request whose handler coroutine the event loop is running
    req,               \* per request slot: position in its handler and its locals
    lastResp,          \* history: the HTTP response sent most recently
    lastCall,          \* history: the GoogleSheetsService method call made most recently
    vin,               \* validator harness: the triple under validation
    vout               \* validator harness: what CalculateRequest made of it

vars == <<GOOGLE_SHEET_ID, credFile, worksheets, inputCells, sheets_service,
          nConstructed, client, spreadsheet, phase, loopOwner, req, lastResp,
          lastCall, vin, vout>>

envVars    == <<GOOGLE_SHEET_ID, credFile, worksheets>>
gwVars     == <<sheets_service, nConstructed, client, spreadsheet>>
httpVars   == <<phase, loopOwner, req, lastResp>>
harnessVars == <<vin, vout>>

-----------------------------------------------------------------------------
(* Bounds of the model and constants of the program *)

NumReq == 2            \* request slots: requests that can be in flight together

MaxRate == 100         \* models.py:30  le=100, models.py:52  v > 100

HTTP_200 == 200
HTTP_400 == 400
HTTP_422 == 422
HTTP_500 == 500
HTTP_503 == 503

None == "None"

Requests == 1 .. NumReq

-----------------------------------------------------------------------------
(* models.py: CalculateRequest *)

\* Field(..., gt=0) on principal and time, Field(..., gt=0, le=100) on rate
FieldConstraintLt(name, v) ==
    IF name = "rate" THEN v > 0 /\ v < MaxRate ELSE v > 0
FieldConstraint(name, v) ==
    IF name = "rate" THEN v > 0 /\ v <= MaxRate ELSE v > 0

\* @field_validator("principal", "rate", "time"): raises when v <= 0, else returns v
validate_positive(v) ==
    IF v <= 0 THEN [ok |-> FALSE, value |-> v] ELSE [ok |-> TRUE, value |-> v]

\* @field_validator("rate"): raises when v > 100, else returns v
validate_rate(v) ==
    IF v > MaxRate THEN [ok |-> FALSE, value |-> v] ELSE [ok |-> TRUE, value |-> v]

\* One field: the Field constraints first, then the "after" validators in
\* the order of their definition, each fed the value the previous returned.
ValidateField(name, v) ==
    IF ~FieldConstraint(name, v) THEN [ok |-> FALSE, value |-> v]
    ELSE LET p == validate_positive(v)
         IN  IF ~p.ok THEN p
             ELSE IF name = "rate" THEN validate_rate(p.value) ELSE p

\* A model that validates the rate alone
CalculateRequestRateOnly(body) ==
    LET r == ValidateField("rate", body.rate)
    IN  [ok     |-> r.ok,
         fields |-> IF r.ok THEN {} ELSE {"rate"},
         value  |-> [principal |-> body.principal, rate |-> r.value, time |-> body.time]]

\* The model as a whole: every field is validated, the errors are collected
\* per field, and the instance exists only when no field failed.
CalculateRequest(body) ==
    LET p == ValidateField("principal", body.principal)
        r == ValidateField("rate", body.rate)
        t == ValidateField("time", body.time)
        bad == (IF p.ok THEN {} ELSE {"principal"})
               \cup (IF r.ok THEN {} ELSE {"rate"})
               \cup (IF t.ok THEN {} ELSE {"time"})
    IN  [ok     |-> bad = {},
         fields |-> bad,
         value  |-> [principal |-> p.value, rate |-> r.value, time |-> t.value]]

Body(p, r, t) == [principal |-> p, rate |-> r, time |-> t]

-----------------------------------------------------------------------------
(* services/google_sheets.py: GoogleSheetsService *)

RequiredSheets == <<"Input", "Calc", "Output">>
AllTitles == {"Input", "Calc", "Output", "Notes"}

\* What acell(...).value of an Output cell can be, as text: nothing, a
\* word, numerals, the numeral of zero, numerals followed by a letter.
CellTexts == {<<>>, <<"a", "b", "c">>, <<"1", "2">>, <<"0">>, <<"1", "a">>}

\* What the two cells Output!B2 and Output!B3 can hold together
OutputTexts == CellTexts \X CellTexts

Digits == {"0", "1", "2", "3", "4", "5", "6", "7", "8", "9"}
DigitVal(d) ==
    CASE d = "0" -> 0 [] d = "1" -> 1 [] d = "2" -> 2 [] d = "3" -> 3
      [] d = "4" -> 4 [] d = "5" -> 5 [] d = "6" -> 6 [] d = "7" -> 7
      [] d = "8" -> 8 [] d = "9" -> 9

RECURSIVE DecimalValue(_)
DecimalValue(s) ==
    IF s = <<>> THEN 0
    ELSE 10 * DecimalValue(SubSeq(s, 1, Len(s) - 1)) + DigitVal(s[Len(s)])

\* float(raw) if raw else 0.0, on the texts above: an empty cell is falsy,
\* a numeral parses, anything else raises ValueError.
ParseCellLenient(raw) ==
    IF raw = <<>> THEN [ok |-> TRUE, value |-> 0]
    ELSE IF \A i \in 1 .. Len(raw) : raw[i] \in Digits
         THEN [ok |-> TRUE, value |-> DecimalValue(raw)]
         ELSE [ok |-> TRUE, value |-> 0]
ParseCell(raw) ==
    IF raw = <<>> THEN [ok |-> TRUE, value |-> 0]
    ELSE IF \A i \in 1 .. Len(raw) : raw[i] \in Digits
         THEN [ok |-> TRUE, value |-> DecimalValue(raw)]
         ELSE [ok |-> FALSE, value |-> 0]

\* Outcome of one method call: whether it raised, what it returned, its
\* message, the remote accesses (and the sleep) it made in order, and the
\* state it left.
Outcome(raised, ok, msg, ops, result, c, s, cells) ==
    [raised |-> raised, ok |-> ok, msg |-> msg, ops |-> ops, result |-> result,
     client |-> c, spreadsheet |-> s, cells |-> cells]

\* authenticate (55-88): load the credentials, authorize (self.client is
\* assigned), open the spreadsheet (self.spreadsheet is assigned only when
\* open_by_key returns).  Every exception is re-raised as Exception.
authenticate(c, s, cells) ==
    IF credFile = "missing"
    THEN {Outcome(TRUE, FALSE, <<"Credentials file not found">>, <<"connect">>, <<>>, c, s, cells)}
    ELSE IF credFile = "invalid"
    THEN {Outcome(TRUE, FALSE, <<"Authentication failed", "bad credentials">>, <<"connect">>, <<>>, c, s, cells)}
    ELSE {Outcome(FALSE, TRUE, <<>>, <<"connect">>, <<>>, "Client", "Spreadsheet", cells),
          Outcome(TRUE, FALSE, <<"Spreadsheet not found">>, <<"connect">>, <<>>, "Client", s, cells),
          Outcome(TRUE, FALSE, <<"Authentication failed", "transport error">>, <<"connect">>, <<>>, "Client", s, cells)}

\* The Input cells after the first k of the three update_acell calls
UpdatedCellsAtomic(cells, vals, k) ==
    IF k = 3 THEN <<vals[1], vals[2], vals[3]>> ELSE cells
UpdatedCells(cells, vals, k) ==
    <<IF 1 <= k THEN vals[1] ELSE cells[1],
      IF 2 <= k THEN vals[2] ELSE cells[2],
      IF 3 <= k THEN vals[3] ELSE cells[3]>>

\* The accesses made when the first k update_acell calls were attempted
UpdateNames == <<"update B2", "update B3", "update B4">>
UpdateOps(k) == SubSeq(UpdateNames, 1, k)

\* if not self.spreadsheet: raise Exception("Not authenticated. ...")  (115-116)
WriteGuardOnClient(c, s) == c = None
WriteGuard(c, s) == s = None

\* except Exception as e: raise Exception(f"Failed to write inputs: {str(e)}")  (140-141)
WriteFailureSwallowed(ops, c, s, cells) ==
    Outcome(FALSE, TRUE, <<>>, ops, <<>>, c, s, cells)
WriteFailure(ops, c, s, cells) ==
    Outcome(TRUE, FALSE, <<"Failed to write inputs", "transport error">>, ops, <<>>, c, s, cells)

\* write_inputs (115-141)
write_inputs(c, s, cells, vals) ==
    IF WriteGuard(c, s)
    THEN {Outcome(TRUE, FALSE, <<"Not authenticated. Call authenticate() first.">>, <<>>, <<>>, c, s, cells)}
    ELSE
      \* self.spreadsheet.worksheet("Input"): not found, or the transport fails
      (IF "Input" \in worksheets THEN {}
       ELSE {Outcome(TRUE, FALSE, <<"Worksheet 'Input' not found">>, <<"worksheet Input">>, <<>>, c, s, cells)})
      \cup {WriteFailure(<<"worksheet Input">>, c, s, cells)}
      \cup
      (IF "Input" \notin worksheets THEN {}
       ELSE
         \* the k-th update_acell fails after k-1 updates landed
         {WriteFailure(<<"worksheet Input">> \o UpdateOps(k), c, s,
                       UpdatedCells(cells, vals, k - 1)) : k \in 1 .. 3}
         \cup
         \* all three landed, then sleep(0.5)
         {Outcome(FALSE, TRUE, <<>>, <<"worksheet Input">> \o UpdateOps(3) \o <<"sleep">>,
                  <<>>, c, s, UpdatedCells(cells, vals, 3))})

\* if not self.spreadsheet: raise Exception("Not authenticated. ...")  (166-167)
ReadGuard(c, s) == s = None

\* read_outputs (166-207): both cells are read, then each is parsed; out is
\* what the two Output cells hold when they are read
read_outputs(c, s, cells, out) ==
    IF ReadGuard(c, s)
    THEN {Outcome(TRUE, FALSE, <<"Not authenticated. Call authenticate() first.">>, <<>>, <<>>, c, s, cells)}
    ELSE
      (IF "Output" \in worksheets THEN {}
       ELSE {Outcome(TRUE, FALSE, <<"Worksheet 'Output' not found">>, <<"worksheet Output">>, <<>>, c, s, cells)})
      \cup {Outcome(TRUE, FALSE, <<"Failed to read outputs", "transport error">>, <<"worksheet Output">>, <<>>, c, s, cells)}
      \cup
      (IF "Output" \notin worksheets THEN {}
       ELSE
         {Outcome(TRUE, FALSE, <<"Failed to read outputs", "transport error">>,
                  <<"worksheet Output", "acell B2">>, <<>>, c, s, cells),
          Outcome(TRUE, FALSE, <<"Failed to read outputs", "transport error">>,
                  <<"worksheet Output", "acell B2", "acell B3">>, <<>>, c, s, cells)}
         \cup
         {LET si == ParseCell(out[1])
              ci == ParseCell(out[2])
              ops == <<"worksheet Output", "acell B2", "acell B3">>
          IN  IF ~si.ok
              THEN Outcome(TRUE, FALSE, <<"Failed to read outputs", "Invalid simple interest value in B2">>,
                           ops, <<>>, c, s, cells)
              ELSE IF ~ci.ok
              THEN Outcome(TRUE, FALSE, <<"Failed to read outputs", "Invalid compound interest value in B3">>,
                           ops, <<>>, c, s, cells)
              ELSE Outcome(FALSE, TRUE, <<>>, ops, <<si.value, ci.value>>, c, s, cells)})

\* [s for s in required_sheets if s not in existing_sheets]
MissingSheetsFirstOnly(existing) ==
    SubSeq(SelectSeq(RequiredSheets, LAMBDA t : t \notin existing), 1, 1)
MissingSheets(existing) ==
    SelectSeq(RequiredSheets, LAMBDA t : t \notin existing)

\* if not self.spreadsheet: return False, "Not authenticated"  (246-247)
VerifyGuard(c, s) == s = None

\* verify_sheet_structure (246-257); worksheets() is a remote call and can raise
verify_sheet_structure(c, s, cells) ==
    IF VerifyGuard(c, s)
    THEN {Outcome(FALSE, FALSE, <<"Not authenticated">>, <<>>, <<>>, c, s, cells)}
    ELSE {Outcome(TRUE, FALSE, <<"transport error">>, <<"worksheets">>, <<>>, c, s, cells),
          IF MissingSheets(worksheets) # <<>>
          THEN Outcome(FALSE, FALSE, <<"Missing required sheets">> \o MissingSheets(worksheets),
                       <<"worksheets">>, <<>>, c, s, cells)
          ELSE Outcome(FALSE, TRUE, <<"Sheet structure verified successfully">>,
                       <<"worksheets">>, <<>>, c, s, cells)}

-----------------------------------------------------------------------------
(* main.py: the process-wide instance and its lazy-init accessor *)

NoService == 0      \* sheets_service = None; instances are numbered from 1

ServiceOutcome(raised, msg, ops, ss, n, c, s) ==
    [raised |-> raised, msg |-> msg, ops |-> ops, sheets_service |-> ss,
     nConstructed |-> n, client |-> c, spreadsheet |-> s]

InitFailed(msg) == <<"Failed to initialize Google Sheets service">> \o msg

\* if sheets_service is None  (96)
ServiceAlwaysMissing(ss) == TRUE
ServiceMissing(ss) == ss = NoService

\* get_sheets_service (94-109).  The global is assigned as soon as the
\* constructor returns, before authenticate() is called on it; every
\* exception becomes HTTPException(500).
get_sheets_service(ss, n, c, s) ==
    IF ~ServiceMissing(ss)
    THEN {ServiceOutcome(FALSE, <<>>, <<>>, ss, n, c, s)}
    ELSE IF GOOGLE_SHEET_ID = ""          \* __init__ (41-42)
    THEN {ServiceOutcome(TRUE, InitFailed(<<"Sheet ID cannot be empty">>), <<>>, ss, n, c, s)}
    ELSE IF credFile = "missing"          \* __init__ (44-48)
    THEN {ServiceOutcome(TRUE, InitFailed(<<"Credentials file not found">>), <<>>, ss, n, c, s)}
    ELSE {ServiceOutcome(a.raised, IF a.raised THEN InitFailed(a.msg) ELSE <<>>,
                         <<"construct">> \o a.ops, n + 1, n + 1, a.client, a.spreadsheet)
          : a \in authenticate(None, None, inputCells)}

\* str() of an HTTPException: "<status_code>: <detail>"
StrHTTPException(detail) == <<"500">> \o detail

-----------------------------------------------------------------------------
(* The HTTP application *)

Endpoints == {"calculate", "health", "verify"}

NoBody == Body(0, 0, 0)

\* Request bodies sent to POST /calculate: two valid ones that differ in
\* every field, and bodies with one or more fields out of range.
HttpBodies ==
    {Body(1, 1, 1), Body(2, 100, 2),
     Body(0, 1, 1), Body(1, 101, 1), Body(1, 1, 0), Body(-1, 0, -1)}

IdleReq ==
    [pc |-> "idle", ep |-> "", body |-> NoBody, ops |-> <<>>,
     hadService |-> FALSE, wasConnected |-> FALSE]

NoResp ==
    [ep |-> "", body |-> NoBody, status |-> 0, keys |-> {}, fields |-> {},
     msg |-> <<>>, result |-> <<>>, echo |-> NoBody, ops |-> <<>>, state |-> "",
     hadService |-> FALSE, wasConnected |-> FALSE]

NoCall ==
    [op |-> "", pre |-> None, raised |-> FALSE, ok |-> FALSE, msg |-> <<>>,
     ops |-> <<>>, result |-> <<>>, args |-> <<>>, cells0 |-> <<0, 0, 0>>,
     raw |-> <<>>]

Call(op, s, args, cells, raw, o) ==
    [op |-> op, pre |-> s, raised |-> o.raised, ok |-> o.ok, msg |-> o.msg,
     ops |-> o.ops, result |-> o.result, args |-> args, cells0 |-> cells,
     raw |-> raw]

\* round(x, 2): the model's numbers are whole, rounding to two decimals keeps them
Round2(x) == x

EnvInit ==
    /\ GOOGLE_SHEET_ID \in {"", "sheet-id"}
    /\ credFile \in {"missing", "invalid", "valid"}
    /\ inputCells = <<0, 0, 0>>

NoValidation == [done |-> FALSE, ok |-> FALSE, fields |-> {}, value |-> NoBody]

Init ==
    /\ EnvInit
    /\ worksheets \in SUBSET AllTitles
    /\ sheets_service = NoService
    /\ nConstructed = 0
    /\ client = None
    /\ spreadsheet = None
    /\ phase = "init"
    /\ loopOwner = 0
    /\ req = [r \in Requests |-> IdleReq]
    /\ lastResp = NoResp
    /\ lastCall = NoCall
    /\ vin = NoBody
    /\ vout = NoValidation

\* settings.validate() raises (config.py 46-53): the sheet id is not set,
\* or there is no file at the credentials path
ConfigInvalid == GOOGLE_SHEET_ID = "" \/ credFile = "missing"

\* except Exception: raise, else yield (main.py 53-57): an exception in the
\* startup part of the lifespan fails the startup, and the host exits
\* without serving; otherwise the application is served.
StartupPhaseSwallowed(raised) == "serving"
StartupPhase(raised) == IF raised THEN "failed" ELSE "serving"

\* lifespan (39-55): settings.validate() (config.py 46-53), then
\* get_sheets_service(); any exception is re-raised and the server never
\* starts serving.
lifespan ==
    /\ phase = "init"
    /\ IF ConfigInvalid
       THEN /\ phase' = StartupPhase(TRUE)
            /\ UNCHANGED gwVars
       ELSE \E o \in get_sheets_service(sheets_service, nConstructed, client, spreadsheet) :
              /\ phase' = StartupPhase(o.raised)
              /\ sheets_service' = o.sheets_service
              /\ nConstructed' = o.nConstructed
              /\ client' = o.client
              /\ spreadsheet' = o.spreadsheet
    /\ UNCHANGED <<envVars, inputCells, loopOwner, req, lastResp, lastCall, harnessVars>>

\* The application served by a host that does not run the lifespan
\* protocol: the first request creates the service ("will authenticate on
\* first use", main.py 23).
ServeWithoutLifespan ==
    /\ phase = "init"
    /\ phase' = "serving"
    /\ UNCHANGED <<envVars, inputCells, gwVars, loopOwner, req, lastResp, lastCall, harnessVars>>

\* The operator of the deployment replaces a credentials file that does
\* not hold a valid service-account key by one that does.
FixCredentials ==
    /\ phase \in {"serving", "unit"}
    /\ credFile = "invalid"
    /\ credFile' = "valid"
    /\ UNCHANGED <<GOOGLE_SHEET_ID, worksheets, inputCells, gwVars, httpVars, lastCall, harnessVars>>

LowestIdle(r) ==
    /\ req[r].pc = "idle"
    /\ \A q \in Requests : q < r => req[q].pc # "idle"

\* A client sends a request; it waits, unread, until the event loop takes
\* it up.
Arrive(r) ==
    /\ phase = "serving"
    /\ LowestIdle(r)
    /\ req' = [req EXCEPT ![r].pc = "pending"]
    /\ UNCHANGED <<envVars, inputCells, gwVars, phase, loopOwner, lastResp, lastCall, harnessVars>>

\* The response to request r leaves; its slot and the event loop are free.
RespondTo(r, ep, body, status, keys, fields, msg, result, echo, state, ops) ==
    /\ lastResp' = [ep |-> ep, body |-> body, status |-> status,
                    keys |-> keys, fields |-> fields, msg |-> msg, result |-> result,
                    echo |-> echo, ops |-> ops, state |-> state,
                    hadService |-> req[r].hadService,
                    wasConnected |-> req[r].wasConnected]
    /\ req' = [req EXCEPT ![r] = IdleReq]
    /\ loopOwner' = 0

Respond(r, status, keys, fields, msg, result, echo, state, ops) ==
    RespondTo(r, req[r].ep, req[r].body, status, keys, fields, msg, result, echo, state, ops)

\* @app.exception_handler(HTTPException) (289-295): {"error": exc.detail}
http_exception_handler(r, status, detail, ops) ==
    Respond(r, status, {"error"}, {}, detail, <<>>, NoBody, "", ops)

\* async def handlers (134, 186, 259) whose bodies never await: the event
\* loop runs one coroutine at a time, and such a handler keeps the loop
\* from its first statement to its return.
LoopAlwaysFree == TRUE
LoopFree == loopOwner = 0

\* The framework takes up a pending request and reads it: the body of
\* POST /calculate is parsed into the handler's CalculateRequest parameter
\* before the handler is called (main.py 186); when that fails the handler
\* is not called and the framework answers 422 with the list of errors
\* under "detail".  Otherwise the handler starts and holds the event loop.
Dispatch(r) ==
    /\ phase = "serving"
    /\ req[r].pc = "pending"
    /\ LoopFree
    /\ \E ep \in Endpoints :
       \E body \in (IF ep = "calculate" THEN HttpBodies ELSE {NoBody}) :
         LET v == CalculateRequest(body)
         IN  IF ep = "calculate" /\ ~v.ok
             THEN RespondTo(r, ep, body, HTTP_422, {"detail"}, v.fields,
                            <<"validation error">>, <<>>, NoBody, "", <<>>)
             ELSE /\ req' = [req EXCEPT ![r].pc = "get_service",
                                        ![r].ep = ep,
                                        ![r].body = IF ep = "calculate"
                                                    THEN v.value ELSE NoBody]
                  /\ loopOwner' = r
                  /\ UNCHANGED lastResp
    /\ UNCHANGED <<envVars, inputCells, gwVars, phase, lastCall, harnessVars>>

\* What each handler does with the HTTPException of get_sheets_service:
\* calculate_interest (246-251) wraps str(e) in a new 500, health_check
\* (154-162) answers 503 with str(e), verify_sheet (279-280) re-raises it.
AccessorFailedReraised(r, detail, ops) ==
    http_exception_handler(r, HTTP_500, detail, ops)
AccessorFailed(r, detail, ops) ==
    CASE req[r].ep = "calculate" ->
           http_exception_handler(r, HTTP_500,
               <<"Calculation failed">> \o StrHTTPException(detail), ops)
      [] req[r].ep = "health" ->
           Respond(r, HTTP_503, {"status", "version", "detail"}, {},
                   StrHTTPException(detail), <<>>, NoBody, "unhealthy", ops)
      [] req[r].ep = "verify" ->
           http_exception_handler(r, HTTP_500, detail, ops)

AfterService(ep) ==
    CASE ep = "calculate" -> "ensure_auth"
      [] ep = "health" -> "health_verify"
      [] ep = "verify" -> "verify_verify"

\* service = get_sheets_service()   (main.py 137, 214, 269)
GetService(r) ==
    /\ req[r].pc = "get_service"
    /\ loopOwner = r
    /\ \E o \in get_sheets_service(sheets_service, nConstructed, client, spreadsheet) :
         /\ sheets_service' = o.sheets_service
         /\ nConstructed' = o.nConstructed
         /\ client' = o.client
         /\ spreadsheet' = o.spreadsheet
         /\ IF o.raised
            THEN AccessorFailed(r, o.msg, o.ops)
            ELSE /\ req' = [req EXCEPT ![r].pc = AfterService(req[r].ep),
                                       ![r].ops = o.ops,
                                       ![r].hadService = ~ServiceMissing(sheets_service),
                                       ![r].wasConnected = spreadsheet # None]
                 /\ UNCHANGED <<loopOwner, lastResp>>
    /\ UNCHANGED <<envVars, inputCells, phase, lastCall, harnessVars>>

\* except Exception in calculate_interest (246-251)
CalculationFailedNoDetail(r, o) ==
    http_exception_handler(r, HTTP_500, <<"Calculation failed">>,
                           req[r].ops \o o.ops)
CalculationFailed(r, o) ==
    http_exception_handler(r, HTTP_500, <<"Calculation failed">> \o o.msg,
                           req[r].ops \o o.ops)

NeedsAuth(c) == c = None

\* GoogleSheetsService.calculate_interest (230-231): if not self.client: self.authenticate()
EnsureAuthenticated(r) ==
    /\ req[r].pc = "ensure_auth"
    /\ loopOwner = r
    /\ IF NeedsAuth(client)
       THEN \E o \in authenticate(client, spreadsheet, inputCells) :
              /\ client' = o.client
              /\ spreadsheet' = o.spreadsheet
              /\ IF o.raised
                 THEN CalculationFailed(r, o)
                 ELSE /\ req' = [req EXCEPT ![r].pc = "write_inputs",
                                            ![r].ops = req[r].ops \o o.ops]
                      /\ UNCHANGED <<loopOwner, lastResp>>
       ELSE /\ req' = [req EXCEPT ![r].pc = "write_inputs"]
            /\ UNCHANGED <<client, spreadsheet, loopOwner, lastResp>>
    /\ UNCHANGED <<envVars, inputCells, sheets_service, nConstructed, phase, lastCall, harnessVars>>

BodyVals(b) == <<b.principal, b.rate, b.time>>

\* GoogleSheetsService.calculate_interest (234): self.write_inputs(principal, rate, time)
WriteInputs(r) ==
    /\ req[r].pc = "write_inputs"
    /\ loopOwner = r
    /\ \E o \in write_inputs(client, spreadsheet, inputCells, BodyVals(req[r].body)) :
         /\ inputCells' = o.cells
         /\ IF o.raised
            THEN CalculationFailed(r, o)
            ELSE /\ req' = [req EXCEPT ![r].pc = "read_outputs",
                                       ![r].ops = req[r].ops \o o.ops]
                 /\ UNCHANGED <<loopOwner, lastResp>>
    /\ UNCHANGED <<envVars, gwVars, phase, lastCall, harnessVars>>

CalculateKeys == {"simpleInterest", "compoundInterest", "principal", "rate", "time"}

\* GoogleSheetsService.calculate_interest (237): return self.read_outputs(),
\* then the handler builds the CalculateResponse (main.py 224-238)
ReadOutputs(r) ==
    /\ req[r].pc = "read_outputs"
    /\ loopOwner = r
    /\ \E out \in OutputTexts :
       \E o \in read_outputs(client, spreadsheet, inputCells, out) :
         /\ IF o.raised
            THEN CalculationFailed(r, o)
            ELSE Respond(r, HTTP_200, CalculateKeys, {}, <<>>,
                         <<Round2(o.result[1]), Round2(o.result[2])>>,
                         req[r].body, "", req[r].ops \o o.ops)
    /\ UNCHANGED <<envVars, inputCells, gwVars, phase, lastCall, harnessVars>>

\* health_check (138-162)
HealthVerify(r) ==
    /\ req[r].pc = "health_verify"
    /\ loopOwner = r
    /\ \E o \in verify_sheet_structure(client, spreadsheet, inputCells) :
         /\ IF o.raised \/ ~o.ok
            THEN Respond(r, HTTP_503, {"status", "version", "detail"}, {}, o.msg,
                         <<>>, NoBody, "unhealthy", req[r].ops \o o.ops)
            ELSE Respond(r, HTTP_200, {"status", "version"}, {}, <<>>,
                         <<>>, NoBody, "healthy", req[r].ops \o o.ops)
    /\ UNCHANGED <<envVars, inputCells, gwVars, phase, lastCall, harnessVars>>

\* verify_sheet (270-285)
VerifySheet(r) ==
    /\ req[r].pc = "verify_verify"
    /\ loopOwner = r
    /\ \E o \in verify_sheet_structure(client, spreadsheet, inputCells) :
         /\ IF o.raised
            THEN http_exception_handler(r, HTTP_500, o.msg, req[r].ops \o o.ops)
            ELSE IF ~o.ok
            THEN http_exception_handler(r, HTTP_400, o.msg, req[r].ops \o o.ops)
            ELSE Respond(r, HTTP_200, {"status", "message"}, {}, o.msg,
                         <<>>, NoBody, "success", req[r].ops \o o.ops)
    /\ UNCHANGED <<envVars, inputCells, gwVars, phase, lastCall, harnessVars>>

Next ==
    \/ lifespan
    \/ ServeWithoutLifespan
    \/ FixCredentials
    \/ \E r \in Requests : Arrive(r)
    \/ \E r \in Requests : Dispatch(r)
    \/ \E r \in Requests : GetService(r)
    \/ \E r \in Requests : EnsureAuthenticated(r)
    \/ \E r \in Requests : WriteInputs(r)
    \/ \E r \in Requests : ReadOutputs(r)
    \/ \E r \in Requests : HealthVerify(r)
    \/ \E r \in Requests : VerifySheet(r)

Spec == Init /\ [][Next]_vars

-----------------------------------------------------------------------------
(* CalculateRequest on its own: every triple of a grid around the limits *)

MaxAmount == 2

Grid ==
    {Body(p, r, t) : p \in -1 .. MaxAmount,
                     r \in (-1 .. 1) \cup (MaxRate - 1 .. MaxRate + 1),
                     t \in -1 .. MaxAmount}

InitValidator ==
    /\ GOOGLE_SHEET_ID = "sheet-id"
    /\ credFile = "valid"
    /\ worksheets = AllTitles
    /\ inputCells = <<0, 0, 0>>
    /\ sheets_service = NoService
    /\ nConstructed = 0
    /\ client = None
    /\ spreadsheet = None
    /\ phase = "unit"
    /\ loopOwner = 0
    /\ req = [r \in Requests |-> IdleReq]
    /\ lastResp = NoResp
    /\ lastCall = NoCall
    /\ vin \in Grid
    /\ vout = NoValidation

\* CalculateRequest(**vin)
Validate ==
    /\ ~vout.done
    /\ LET v == CalculateRequest(vin)
       IN  vout' = [done |-> TRUE, ok |-> v.ok, fields |-> v.fields, value |-> v.value]
    /\ UNCHANGED <<envVars, inputCells, gwVars, httpVars, lastCall, vin>>

NextInput ==
    /\ vout.done
    /\ vin' \in Grid
    /\ vout' = NoValidation
    /\ UNCHANGED <<envVars, inputCells, gwVars, httpVars, lastCall>>

NextValidator == Validate \/ NextInput

SpecValidator == InitValidator /\ [][NextValidator]_vars

-----------------------------------------------------------------------------
(* GoogleSheetsService on its own: one instance, its public methods called *)
(* in any order                                                            *)

InitGateway ==
    /\ GOOGLE_SHEET_ID = "sheet-id"
    /\ credFile \in {"invalid", "valid"}
    /\ worksheets \in SUBSET AllTitles
    /\ inputCells = <<0, 0, 0>>
    /\ sheets_service = 1
    /\ nConstructed = 1
    /\ client = None
    /\ spreadsheet = None
    /\ phase = "unit"
    /\ loopOwner = 0
    /\ req = [r \in Requests |-> IdleReq]
    /\ lastResp = NoResp
    /\ lastCall = NoCall
    /\ vin = NoBody
    /\ vout = NoValidation

Apply(op, args, raw, o) ==
    /\ client' = o.client
    /\ spreadsheet' = o.spreadsheet
    /\ inputCells' = o.cells
    /\ lastCall' = Call(op, spreadsheet, args, inputCells, raw, o)
    /\ UNCHANGED <<envVars, sheets_service, nConstructed, httpVars, harnessVars>>

CallAuthenticate ==
    \E o \in authenticate(client, spreadsheet, inputCells) :
        Apply("authenticate", <<>>, <<>>, o)

CallWriteInputs ==
    \E b \in {x \in HttpBodies : CalculateRequest(x).ok} :
    \E o \in write_inputs(client, spreadsheet, inputCells, BodyVals(b)) :
        Apply("write_inputs", BodyVals(b), <<>>, o)

CallReadOutputs ==
    \E out \in OutputTexts :
    \E o \in read_outputs(client, spreadsheet, inputCells, out) :
        Apply("read_outputs", <<>>, out, o)

CallVerifySheetStructure ==
    \E o \in verify_sheet_structure(client, spreadsheet, inputCells) :
        Apply("verify_sheet_structure", <<>>, <<>>, o)

NextGateway ==
    \/ CallAuthenticate
    \/ CallWriteInputs
    \/ CallReadOutputs
    \/ CallVerifySheetStructure
    \/ FixCredentials

SpecGateway == InitGateway /\ [][NextGateway]_vars

-----------------------------------------------------------------------------
(* The claims *)

Range(q) == {q[i] : i \in 1 .. Len(q)}
IsPrefix(p, q) == Len(p) <= Len(q) /\ SubSeq(q, 1, Len(p)) = p
Count(x, q) == Cardinality({i \in 1 .. Len(q) : q[i] = x})
LastOp(q) == IF q = <<>> THEN "" ELSE q[Len(q)]
DropHead(q, x) == IF q # <<>> /\ Head(q) = x THEN Tail(q) ELSE q

\* What a request did after the instance was there and connected
GatewaySteps(ops) == DropHead(DropHead(ops, "construct"), "connect")

WriteSteps == <<"worksheet Input", "update B2", "update B3", "update B4", "sleep">>
ReadSteps == <<"worksheet Output", "acell B2", "acell B3">>
CalcSequence == WriteSteps \o ReadSteps

InRange(b) ==
    b.principal > 0 /\ b.time > 0 /\ b.rate > 0 /\ b.rate <= 100

InHandler(r) == req[r].pc \notin {"idle", "pending"}

\* C1: the validator accepts a triple exactly when principal > 0, time > 0
\* and 0 < rate <= 100, and an accepted triple comes out as it went in.
C1_ValidatorAcceptsExactlyInRange ==
    vout.done =>
        /\ vout.ok <=> InRange(vin)
        /\ vout.ok => vout.value = vin

C1_Witness == vout.done /\ vout.ok /\ vin.rate = 100 /\ vin.principal = 2

\* C2: a POST /calculate whose body fails validation is answered with
\* status 400 and a body that has an error field.
C2_InvalidBodyAnswered400 ==
    (lastResp.ep = "calculate" /\ ~InRange(lastResp.body)) =>
        /\ lastResp.status = 400
        /\ "error" \in lastResp.keys

\* C3: the step that answers a request whose body is out of range makes no
\* Gateway operation: no instance is constructed, nothing connects, and the
\* Input cells and the Gateway are as they were.
C3_RejectedRequestTouchesNothing ==
    [][(lastResp' # lastResp /\ lastResp'.ep = "calculate" /\ ~InRange(lastResp'.body)) =>
          /\ lastResp'.ops = <<>>
          /\ inputCells' = inputCells
          /\ <<sheets_service, nConstructed, client, spreadsheet>>' =
             <<sheets_service, nConstructed, client, spreadsheet>>]_vars

C3_Witness ==
    /\ lastResp.ep = "calculate"
    /\ ~InRange(lastResp.body)
    /\ spreadsheet # None
    /\ inputCells = <<2, 100, 2>>

\* C4: the Gateway operations of a calculate call come in the order
\* connect (only on a Gateway that was not connected), worksheet Input,
\* update B2, B3, B4, sleep, worksheet Output, acell B2, B3; a read is
\* preceded by all three updates and the sleep, and a call that stops
\* before the sleep reads nothing and returns no result.
C4_CalculateOrder ==
    /\ \A r \in Requests :
         req[r].ep = "calculate" =>
            /\ IsPrefix(GatewaySteps(req[r].ops), CalcSequence)
            /\ req[r].pc = "read_outputs" => GatewaySteps(req[r].ops) = WriteSteps
    /\ (lastResp.ep = "calculate" /\ InRange(lastResp.body)) =>
            /\ IsPrefix(GatewaySteps(lastResp.ops), CalcSequence)
            /\ Count("connect", lastResp.ops) <= 1
            /\ "connect" \in Range(lastResp.ops) => ~lastResp.wasConnected
            /\ lastResp.result # <<>> => GatewaySteps(lastResp.ops) = CalcSequence
            /\ ~IsPrefix(WriteSteps, GatewaySteps(lastResp.ops)) =>
                  /\ lastResp.result = <<>>
                  /\ Range(lastResp.ops) \cap Range(ReadSteps) = {}

C4_Witness ==
    /\ lastResp.ep = "calculate"
    /\ lastResp.status = 200
    /\ lastResp.ops = <<"construct", "connect">> \o CalcSequence

\* C5 as claimed: the write -> delay -> read sequences of two concurrent
\* requests can interleave: while one request is between its write and its
\* read, the server can take up a request that is waiting.
C5_SequencesCanInterleave ==
    \A r, q \in Requests :
        (req[r].pc = "read_outputs" /\ req[q].pc = "pending") => ENABLED Dispatch(q)

\* C5 as amended: within the server process the sequences do not
\* interleave: at most one request is inside its handler at a time, and
\* when a request is about to read, the Input cells hold its own values.
C5_HandlersRunToCompletion ==
    /\ Cardinality({r \in Requests : InHandler(r)}) <= 1
    /\ \A r \in Requests :
         req[r].pc = "read_outputs" => inputCells = BodyVals(req[r].body)

C5_Witness ==
    \E r, q \in Requests :
        /\ req[r].pc = "read_outputs"
        /\ req[r].body = Body(1, 1, 1)
        /\ req[q].pc = "pending"
        /\ lastResp.status = 200
        /\ lastResp.body = Body(2, 100, 2)

\* C6: after a failed connect the Gateway holds neither a client nor a
\* spreadsheet handle, and a calculate request that found the Gateway not
\* connected when it went through get_sheets_service has made a connect
\* attempt by the time it calls write_inputs.
C6_FailedConnectIsRetried ==
    /\ (sheets_service # NoService /\ spreadsheet = None) => client = None
    /\ \A r \in Requests :
         (req[r].ep = "calculate" /\ req[r].pc = "write_inputs" /\ ~req[r].wasConnected)
            => "connect" \in Range(req[r].ops)

\* C7: on a Gateway that is not connected, write_inputs, read_outputs and
\* verify_sheet_structure fail with the not-authenticated message without
\* any remote access; the spreadsheet handle appears only in a successful
\* authenticate and is never lost.
C7_NotConnectedFailsFast ==
    /\ [](lastCall.op \in {"write_inputs", "read_outputs", "verify_sheet_structure"}
            /\ lastCall.pre = None
          => /\ ~lastCall.ok
             /\ lastCall.ops = <<>>
             /\ lastCall.result = <<>>
             /\ lastCall.msg \in {<<"Not authenticated. Call authenticate() first.">>,
                                  <<"Not authenticated">>}
             /\ spreadsheet = None
             /\ inputCells = lastCall.cells0)
    /\ [][/\ (spreadsheet = None /\ spreadsheet' # None)
               => (lastCall'.op = "authenticate" /\ lastCall'.ok)
          /\ spreadsheet # None => spreadsheet' # None]_vars

C7_Witness ==
    /\ lastCall.op = "read_outputs"
    /\ lastCall.pre = None
    /\ client = "Client"
    /\ inputCells = <<0, 0, 0>>

\* C8: at most one GoogleSheetsService is ever constructed; with the sheet
\* id and the credentials file in place it is there once the accessor has
\* been called (by startup or by a handler), and a call that found it
\* there returned it without constructing or connecting.
C8_OneInstance ==
    /\ nConstructed <= 1
    /\ sheets_service \in {NoService, 1}
    /\ sheets_service # NoService => nConstructed = 1
    /\ (/\ GOOGLE_SHEET_ID # "" /\ credFile # "missing"
        /\ \/ phase = "failed"
           \/ lastResp.status \notin {0, 422}
           \/ \E r \in Requests : req[r].pc \notin {"idle", "pending", "get_service"})
       => sheets_service = 1
    /\ \A r \in Requests :
         req[r].pc \in {"ensure_auth", "write_inputs", "read_outputs",
                        "health_verify", "verify_verify"} =>
            /\ sheets_service = 1
            /\ req[r].hadService => "construct" \notin Range(req[r].ops)
            /\ (req[r].hadService
                  /\ req[r].pc \in {"ensure_auth", "health_verify", "verify_verify"})
               => req[r].ops = <<>>
    /\ (lastResp.hadService /\ lastResp.ep \in {"health", "verify"}) =>
            Range(lastResp.ops) \subseteq {"worksheets"}

C8_Witness ==
    /\ nConstructed = 1
    /\ lastResp.ep = "calculate"
    /\ lastResp.status = 200
    /\ \E r \in Requests :
         /\ req[r].pc = "health_verify"
         /\ req[r].hadService
         /\ req[r].ops = <<>>

\* The message that belongs to a call that stopped at Gateway operation op
Underlying(op, m) ==
    LET auth == {<<"Credentials file not found">>,
                 <<"Authentication failed", "bad credentials">>,
                 <<"Authentication failed", "transport error">>,
                 <<"Spreadsheet not found">>}
        init == <<"500", "Failed to initialize Google Sheets service">>
    IN  CASE op = "connect" -> m \in auth \cup {init \o a : a \in auth}
          [] op = "" -> m \in {init \o <<"Sheet ID cannot be empty">>,
                               init \o <<"Credentials file not found">>,
                               <<"Not authenticated. Call authenticate() first.">>}
          [] op = "worksheet Input" ->
                m \in {<<"Worksheet 'Input' not found">>,
                       <<"Failed to write inputs", "transport error">>}
          [] op \in {"update B2", "update B3", "update B4"} ->
                m = <<"Failed to write inputs", "transport error">>
          [] op = "worksheet Output" ->
                m \in {<<"Worksheet 'Output' not found">>,
                       <<"Failed to read outputs", "transport error">>}
          [] op = "acell B2" -> m = <<"Failed to read outputs", "transport error">>
          [] op = "acell B3" ->
                m \in {<<"Failed to read outputs", "transport error">>,
                       <<"Failed to read outputs", "Invalid simple interest value in B2">>,
                       <<"Failed to read outputs", "Invalid compound interest value in B3">>}
          [] OTHER -> FALSE

\* C9: a calculate request whose handler ran is answered 200 when every
\* step succeeded and otherwise 500 with the message of the step that
\* failed, and no Gateway operation is made twice for one request.
C9_FailureIs500NoRetry ==
    /\ \A r \in Requests : \A op \in Range(req[r].ops) : Count(op, req[r].ops) = 1
    /\ (lastResp.ep = "calculate" /\ InRange(lastResp.body)) =>
          /\ \A op \in Range(lastResp.ops) : Count(op, lastResp.ops) = 1
          /\ lastResp.status \in {200, 500}
          /\ lastResp.status = 200 <=> lastResp.result # <<>>
          /\ lastResp.status = 200 => GatewaySteps(lastResp.ops) = CalcSequence
          /\ lastResp.status = 500 =>
                /\ lastResp.keys = {"error"}
                /\ lastResp.result = <<>>
                /\ lastResp.msg # <<>>
                /\ Head(lastResp.msg) = "Calculation failed"
                /\ Underlying(LastOp(lastResp.ops), Tail(lastResp.msg))

C9_Witness ==
    /\ lastResp.ep = "calculate"
    /\ lastResp.status = 500
    /\ LastOp(lastResp.ops) = "update B3"
    /\ inputCells = <<2, 1, 1>>

\* C10: on a connected Gateway verify_sheet_structure returns success
\* exactly when "Input", "Calc" and "Output" are all among the worksheets,
\* and its failure message lists exactly the required sheets that are not.
C10_VerifyNamesMissingSheets ==
    (lastCall.op = "verify_sheet_structure" /\ lastCall.pre # None /\ ~lastCall.raised) =>
        /\ lastCall.ok <=> {"Input", "Calc", "Output"} \subseteq worksheets
        /\ lastCall.ops = <<"worksheets">>
        /\ ~lastCall.ok =>
              /\ Head(lastCall.msg) = "Missing required sheets"
              /\ Range(Tail(lastCall.msg)) = {"Input", "Calc", "Output"} \ worksheets
              /\ Len(Tail(lastCall.msg)) = Cardinality({"Input", "Calc", "Output"} \ worksheets)

C10_Witness ==
    /\ lastCall.op = "verify_sheet_structure"
    /\ lastCall.pre # None
    /\ worksheets = {"Notes", "Output"}
    /\ lastCall.msg = <<"Missing required sheets", "Input", "Calc">>

\* The number a numeral of the Output cells stands for
NumberOf(t) ==
    CASE t = <<"1", "2">> -> 12
      [] t = <<"0">> -> 0

IsNumeral(t) == t \in {<<"1", "2">>, <<"0">>}

\* What read_outputs is to make of one cell
FieldOf(t) == IF t = <<>> THEN 0 ELSE NumberOf(t)

ReadTransportError == <<"Failed to read outputs", "transport error">>

\* C11: when read_outputs has read both Output cells, it returns a result
\* exactly when each cell is empty or holds a number; each field of the
\* result is 0 for an empty cell and the cell's number otherwise, whatever
\* the other cell holds; a non-empty cell that is not a number makes the
\* call raise with a message naming the invalid value, and no result.
C11_ReadOutputsParsesEachCell ==
    (/\ lastCall.op = "read_outputs"
     /\ lastCall.ops = ReadSteps
     /\ lastCall.msg # ReadTransportError) =>
        LET raw == lastCall.raw
            good(i) == raw[i] = <<>> \/ IsNumeral(raw[i])
        IN  /\ lastCall.pre # None
            /\ lastCall.ok <=> (good(1) /\ good(2))
            /\ lastCall.ok <=> ~lastCall.raised
            /\ lastCall.ok =>
                  /\ lastCall.result = <<FieldOf(raw[1]), FieldOf(raw[2])>>
                  /\ lastCall.msg = <<>>
            /\ ~lastCall.ok =>
                  /\ lastCall.result = <<>>
                  /\ Len(lastCall.msg) = 2
                  /\ lastCall.msg[1] = "Failed to read outputs"
                  /\ lastCall.msg[2] = IF ~good(1)
                                       THEN "Invalid simple interest value in B2"
                                       ELSE "Invalid compound interest value in B3"
            /\ inputCells = lastCall.cells0

C11_Witness ==
    /\ lastCall.op = "read_outputs"
    /\ lastCall.raw = <<<<>>, <<"1", "2">>>>
    /\ lastCall.result = <<0, 12>>

\* C12: when the lifespan startup runs with the sheet id not set or with
\* no file at the credentials path, it fails without creating the service,
\* and a process whose startup failed stays failed: it accepts no request,
\* runs no handler and sends no response.
C12_FailedStartupNeverServes ==
    /\ [](phase = "failed" =>
            /\ \A r \in Requests : req[r] = IdleReq
            /\ loopOwner = 0
            /\ lastResp = NoResp
            /\ inputCells = <<0, 0, 0>>)
    /\ [][phase = "failed" => phase' = "failed"]_vars
    /\ [][(lifespan /\ (GOOGLE_SHEET_ID = "" \/ credFile = "missing")) =>
             /\ phase' = "failed"
             /\ sheets_service' = NoService
             /\ nConstructed' = 0]_vars

C12_Witness ==
    /\ phase = "failed"
    /\ GOOGLE_SHEET_ID = ""
    /\ credFile = "valid"
    /\ sheets_service = NoService

\* The details of an unhealthy answer and what each of them tells, s being
\* the Gateway's spreadsheet handle when the answer is sent
HealthCause(m, ops, s) ==
    \/ /\ Len(m) >= 2
       /\ SubSeq(m, 1, 2) = <<"500", "Failed to initialize Google Sheets service">>
       /\ Range(ops) \subseteq {"construct", "connect"}
       /\ s = None
    \/ /\ m = <<"Not authenticated">>
       /\ s = None
       /\ "worksheets" \notin Range(ops)
    \/ /\ m # <<>>
       /\ Head(m) = "Missing required sheets"
       /\ Tail(m) # <<>>
       /\ Range(Tail(m)) = {"Input", "Calc", "Output"} \ worksheets
       /\ s # None
       /\ LastOp(ops) = "worksheets"
    \/ /\ m = <<"transport error">>
       /\ s # None
       /\ LastOp(ops) = "worksheets"

\* C13: GET /health is answered 200 or 503 and nothing else; 200 with
\* status "healthy" exactly when get_sheets_service returned the Gateway
\* and verify_sheet_structure listed the sheets and found all three; 503
\* with status "unhealthy" and a detail when the accessor raised, the
\* Gateway is not connected, a required sheet is missing or the listing
\* raised.
C13_HealthIs200Or503 ==
    /\ [](lastResp.ep = "health" =>
            /\ lastResp.status \in {200, 503}
            /\ lastResp.status = 200 <=> lastResp.state = "healthy"
            /\ lastResp.status = 503 <=> lastResp.state = "unhealthy"
            /\ lastResp.status = 200 =>
                  /\ lastResp.keys = {"status", "version"}
                  /\ lastResp.msg = <<>>
            /\ lastResp.status = 503 =>
                  /\ lastResp.keys = {"status", "version", "detail"}
                  /\ lastResp.msg # <<>>
            /\ Count("worksheets", lastResp.ops) <= 1)
    /\ [][(lastResp' # lastResp /\ lastResp'.ep = "health") =>
            /\ lastResp'.status = 200 <=>
                  /\ sheets_service' # NoService
                  /\ spreadsheet' # None
                  /\ LastOp(lastResp'.ops) = "worksheets"
                  /\ lastResp'.msg # <<"transport error">>
                  /\ {"Input", "Calc", "Output"} \subseteq worksheets
            /\ lastResp'.status = 503 =>
                  HealthCause(lastResp'.msg, lastResp'.ops, spreadsheet')]_vars

C13_Witness ==
    /\ lastResp.ep = "health"
    /\ lastResp.status = 503
    /\ lastResp.msg = <<"Missing required sheets", "Calc">>
    /\ lastResp.hadService

\* The Gateway operations a request made in the step that took it out of
\* write_inputs
WritePart(before, after) == SubSeq(after, Len(before) + 1, Len(after))

\* How many update_acell calls landed, given the operations of a write
Landed(w) ==
    IF Len(w) <= 1 THEN 0
    ELSE IF LastOp(w) = "sleep" THEN 3
    ELSE Len(w) - 2

\* C14: write_inputs updates B2, B3, B4 one at a time in that order and
\* undoes nothing: when the k-th update fails, the cells before it hold
\* the request's values and the others hold what they held before the
\* call, the request is answered with an error in that same step, and
\* neither the delay nor a read of the Output sheet is made for it.
C14_PartialWriteStays ==
    [][\A r \in Requests :
         (req[r].pc = "write_inputs" /\ req'[r].pc # "write_inputs") =>
            LET vals == BodyVals(req[r].body)
            IN  IF req'[r].pc = "read_outputs"
                THEN /\ inputCells' = vals
                     /\ req'[r].ops = req[r].ops \o WriteSteps
                ELSE LET w == WritePart(req[r].ops, lastResp'.ops)
                     IN  /\ req'[r] = IdleReq
                         /\ lastResp'.ep = "calculate"
                         /\ lastResp'.body = req[r].body
                         /\ lastResp'.status = 500
                         /\ lastResp'.result = <<>>
                         /\ IsPrefix(req[r].ops, lastResp'.ops)
                         /\ IsPrefix(w, WriteSteps)
                         /\ "sleep" \notin Range(w)
                         /\ Range(lastResp'.ops) \cap Range(ReadSteps) = {}
                         /\ \A i \in 1 .. 3 :
                              inputCells'[i] = IF i <= Landed(w) THEN vals[i]
                                               ELSE inputCells[i]]_vars

C14_Witness ==
    /\ lastResp.ep = "calculate"
    /\ lastResp.status = 500
    /\ lastResp.body = Body(1, 1, 1)
    /\ LastOp(lastResp.ops) = "update B4"
    /\ inputCells = <<1, 1, 2>>

====
